---- MODULE Spec2Model ----
(***************************************************************************)
(* Model of the chat backend: the AI completion retry loop                 *)
(* (generate_ai_response), the vector-store retrieval policy               *)
(* (retrieve_relevant_messages), the scoped transaction helper             *)
(* (db_transaction), the chat endpoints (start_conversation, send_message,*)
(* get_conversation_history), the character endpoints and the encoding of  *)
(* a character's list fields (serialize_list_fields,                       *)
(* deserialize_list_fields).                                               *)
(***************************************************************************)
EXTENDS Integers, Sequences, FiniteSets, TLC

VARIABLES
    gen,            \* the running call of generate_ai_response
    collection,     \* the ChromaDB collection "conversations"
    retr,           \* the last call of retrieve_relevant_messages and its result
    characters,     \* the committed rows of the characters table, by id
    conversations,  \* the committed rows of the conversations table
    messages,       \* the committed rows of the messages table, in commit order
    next_conv_id,   \* the next id the conversations table assigns at flush
    req,            \* per request task: position, locals, session, response
    nreq,           \* number of requests started
    cres,           \* the last call of a character endpoint and its response
    clock,          \* the time the next message row is created at
    ser             \* the last list-field round trip: input, stored, read back

vars == <<gen, collection, retr, characters, conversations, messages,
          next_conv_id, req, nreq, cres, clock, ser>>

chatVars == <<characters, conversations, messages, next_conv_id, req, nreq, cres,
              clock, ser>>

(***************************************************************************)
(* generate_ai_response  (src/app/routers/chat.py 141-182)                 *)
(***************************************************************************)

\* Replies the provider can produce on a successful completion call.
Replies == {"r1", "r2"}

\* Exception classes client.chat.completions.create can raise, each with the
\* classes it is an instance of (the openai class hierarchy the except
\* clauses of the loop match against).
Ancestors(cls) ==
    CASE cls = "BadRequestError"     -> {"BadRequestError", "APIStatusError", "APIError", "Exception"}
      [] cls = "RateLimitError"      -> {"RateLimitError", "APIStatusError", "APIError", "Exception"}
      [] cls = "APIConnectionError"  -> {"APIConnectionError", "APIError", "Exception"}
      [] cls = "APIError"            -> {"APIError", "Exception"}
      [] cls = "ValueError"          -> {"ValueError", "Exception"}

ErrorClasses == {"BadRequestError", "RateLimitError", "APIConnectionError", "APIError", "ValueError"}

\* The provider's outcome of one completion call: a reply or a raised class.
Outcomes == [kind : {"ok"}, reply : Replies, cls : {"none"}]
            \cup [kind : {"raise"}, reply : {"none"}, cls : ErrorClasses]

max_retries == 3
base_wait_time == 2

\* 2 ** n
RECURSIVE Pow2(_)
Pow2(n) == IF n = 0 THEN 1 ELSE 2 * Pow2(n - 1)

\* wait_time = base_wait_time * (2 ** (retry_count - 1))
WaitTimeLinear(retry_count) == base_wait_time * retry_count

wait_time(retry_count) == base_wait_time * Pow2(retry_count - 1)

\* The except clauses of the loop, in source order: the first clause one of
\* whose classes the raised exception is an instance of handles it.
ExceptClausesSwapped ==
    << [handler |-> "transient",   classes |-> {"APIError", "APIConnectionError", "RateLimitError"}],
       [handler |-> "bad_request", classes |-> {"BadRequestError"}],
       [handler |-> "unexpected",  classes |-> {"Exception"}] >>

ExceptClausesBroadRetry ==
    << [handler |-> "bad_request", classes |-> {"BadRequestError"}],
       [handler |-> "transient",   classes |-> {"APIError", "APIConnectionError", "RateLimitError",
                                                "Exception"}],
       [handler |-> "unexpected",  classes |-> {"Exception"}] >>

ExceptClauses ==
    << [handler |-> "bad_request", classes |-> {"BadRequestError"}],
       [handler |-> "transient",   classes |-> {"APIError", "APIConnectionError", "RateLimitError"}],
       [handler |-> "unexpected",  classes |-> {"Exception"}] >>

HandlerOf(cls) ==
    LET matching == {i \in 1..Len(ExceptClauses) :
                        ExceptClauses[i].classes \cap Ancestors(cls) # {}}
        first == CHOOSE i \in matching : \A j \in matching : i <= j
    IN ExceptClauses[first].handler

\* State of one call of generate_ai_response at its entry.
GenStart ==
    [pc |-> "call", retry_count |-> 0, calls |-> 0, sleeps |-> <<>>,
     attempts |-> <<>>, status |-> 0, result |-> "none"]

\* retry_count > max_retries
RetriesExhaustedOff(retry_count) == retry_count >= max_retries

RetriesExhausted(retry_count) == retry_count > max_retries

\* One iteration of the while loop: the completion call with provider outcome o
\* and the except clause that handles it, up to the return, the raise or the
\* await of asyncio.sleep.
GenAttempt(g, o) ==
    LET g1 == [g EXCEPT !.calls = @ + 1, !.attempts = Append(@, o)]
    IN IF o.kind = "ok"
       THEN [g1 EXCEPT !.pc = "returned", !.result = o.reply]
       ELSE CASE HandlerOf(o.cls) = "bad_request" ->
                   [g1 EXCEPT !.pc = "raised", !.status = 400]
              [] HandlerOf(o.cls) = "transient" ->
                   LET rc == g1.retry_count + 1
                   IN IF RetriesExhausted(rc)
                      THEN [g1 EXCEPT !.retry_count = rc, !.pc = "raised", !.status = 503]
                      ELSE [g1 EXCEPT !.retry_count = rc, !.pc = "sleeping",
                                      !.sleeps = Append(@, wait_time(rc))]
              [] HandlerOf(o.cls) = "unexpected" ->
                   [g1 EXCEPT !.pc = "raised", !.status = 503]

\* asyncio.sleep(wait_time) returns and the loop starts its next iteration.
GenWakeUp(g) == [g EXCEPT !.pc = "call"]

GenCall ==
    /\ gen.pc = "call"
    /\ \E o \in Outcomes : gen' = GenAttempt(gen, o)

GenWake ==
    /\ gen.pc = "sleeping"
    /\ gen' = GenWakeUp(gen)

\* A new call of generate_ai_response after the previous one finished.
GenEnter ==
    /\ gen.pc \in {"returned", "raised"}
    /\ gen' = GenStart

(***************************************************************************)
(* The vector store: store_message_embedding and                           *)
(* retrieve_relevant_messages  (src/app/routers/chat.py 49-109)            *)
(***************************************************************************)

\* Records the collection holds at most when it is filled directly, and the
\* largest top_k a call of retrieve_relevant_messages is given.
MaxStore == 3
MaxTopK == 2

ConvIds == {1, 2}
Roles == {"user", "assistant"}
Messages == {"m1", "m2"}
Docs == Messages \cup Replies

\* The embedding of a text (client.embeddings.create): a point on a line.
\* Distinct texts may be equally far from a query.
Embed(doc) ==
    CASE doc = "m1" -> 0
      [] doc = "r1" -> 1
      [] doc = "m2" -> 2
      [] doc = "r2" -> 3

Distance(a, b) == IF a >= b THEN a - b ELSE b - a

Min(a, b) == IF a <= b THEN a ELSE b

\* s[:k]
Take(s, k) == SubSeq(s, 1, Min(k, Len(s)))

\* collection.add: one record per call, appended to the global collection.
\* by is the request that wrote the record (0: none of the modelled requests);
\* the code keeps it apart with the uuid4 of unique_id.
CollectionAdd(store, conversation_id, message, role, by) ==
    Append(store, [conversation_id |-> conversation_id, role |-> role,
                   document |-> message, embedding |-> Embed(message), by |-> by])

\* collection.query(query_embeddings=[e], n_results=n): the n records nearest
\* to e in increasing distance (all records when fewer than n are stored), as
\* the set of index sequences the store may return: equally distant records
\* come in any order.
RECURSIVE NearestFirst(_, _, _, _)
NearestFirst(store, e, remaining, n) ==
    IF n = 0 \/ remaining = {}
    THEN {<<>>}
    ELSE LET nearest == {i \in remaining : \A j \in remaining :
                            Distance(store[i].embedding, e) <= Distance(store[j].embedding, e)}
         IN UNION {{<<i>> \o t : t \in NearestFirst(store, e, remaining \ {i}, n - 1)} :
                   i \in nearest}

CollectionQuery(store, e, n) == NearestFirst(store, e, 1..Len(store), n)

\* collection.peek(n): the first n records of the collection in stored order.
CollectionPeek(store, n) == [i \in 1..Min(n, Len(store)) |-> i]

\* The metadata filter of both loops: keeps the hits of the conversation.
NoConversationFilter(store, ids, conversation_id) == ids

ConversationFilter(store, ids, conversation_id) ==
    SelectSeq(ids, LAMBDA i : store[i].conversation_id = conversation_id)

\* The body of retrieve_relevant_messages after the similarity query returned
\* hits: the path taken and the indices of the records returned.
RetrieveFrom(store, conversation_id, hits, top_k) ==
    LET filtered_results == ConversationFilter(store, hits, conversation_id)
    IN IF filtered_results = <<>>
       THEN LET recent_results == CollectionPeek(store, top_k * 2)
                filtered_recent == ConversationFilter(store, recent_results, conversation_id)
            IN [path |-> "fallback", ids |-> Take(filtered_recent, top_k)]
       ELSE [path |-> "similarity", ids |-> Take(filtered_results, top_k)]

\* The results retrieve_relevant_messages can return on a store.
RetrieveResults(store, conversation_id, query, top_k) ==
    {RetrieveFrom(store, conversation_id, hits, top_k) :
        hits \in CollectionQuery(store, Embed(query), top_k * 2)}

\* The {"role", "content"} dictionaries of the returned records.
MessagesOf(store, ids) ==
    [i \in 1..Len(ids) |-> [role |-> store[ids[i]].role, content |-> store[ids[i]].document]]

NoRetr == [conversation_id |-> 0, query |-> "none", top_k |-> 0, stored |-> 0,
           path |-> "none", ids |-> <<>>, messages |-> <<>>]

\* store_message_embedding on the global collection, by any caller: a user
\* message or an assistant reply of any conversation.
StoreEmbedding ==
    /\ Len(collection) < MaxStore
    /\ \E c \in ConvIds, role \in Roles :
          \E doc \in (IF role = "user" THEN Messages ELSE {"r1"}) :
             collection' = CollectionAdd(collection, c, doc, role, 0)
    /\ UNCHANGED <<gen, ser, clock, retr>>
    /\ UNCHANGED chatVars

\* retrieve_relevant_messages(conversation_id, query, top_k).
Retrieve ==
    /\ \E c \in ConvIds, query \in Messages, top_k \in 1..MaxTopK :
          \E r \in RetrieveResults(collection, c, query, top_k) :
             retr' = [conversation_id |-> c, query |-> query, top_k |-> top_k,
                      stored |-> Len(collection), path |-> r.path, ids |-> r.ids,
                      messages |-> MessagesOf(collection, r.ids)]
    /\ UNCHANGED <<gen, ser, clock, collection>>
    /\ UNCHANGED chatVars

(***************************************************************************)
(* The relational store and the request tasks                              *)
(***************************************************************************)

\* Requests the chat endpoints serve in one behaviour.
MaxRequests == 2

Procs == {1, 2}
Users == {1, 2}
CharIds == {1, 2}
None == "None"

\* owner_id of a row without owner (NULL).
NoOwner == 0

NoChar == [name |-> None]

\* A character row as add_characters.py inserts it: public, without owner.
SeededCharacter ==
    [name |-> "Ada", nationality |-> None, profession |-> "engineer",
     background |-> None, personality_traits |-> "[\"calm\"]", motivations |-> None,
     quirks_habits |-> None, example_sentences |-> None,
     is_personal_character |-> FALSE, owner_id |-> NoOwner]

\* A request task that runs no handler.
Idle ==
    [pc |-> "idle", op |-> "none", id |-> 0, user |-> 0, conversation_id |-> 0,
     character_id |-> 0, message |-> "none", pending |-> <<>>, ids |-> <<>>,
     openai_messages |-> <<>>, ai |-> "none", ai_content |-> "none",
     history |-> <<>>, status |-> 0, detail |-> "none", failed_at |-> "none", txlog |-> <<>>]

\* How a database call of a handler (flush, refresh, commit) can end.
DbOutcomes == {"ok", "SQLAlchemyError", "Exception"}

\* db_transaction: what the context manager does when its body ended with
\* outcome body and, if the body completed, db.commit() ended with outcome
\* commit: whether the session's rows are committed, whether db.rollback()
\* runs, and what leaves the with statement.
DbTransactionNoRollback(body, commit) ==
    IF body = "ok" /\ commit = "ok"
    THEN [committed |-> TRUE, rolled_back |-> FALSE, raised |-> "none"]
    ELSE [committed |-> body = "ok", rolled_back |-> FALSE, raised |-> "Exception"]

db_transaction(body, commit) ==
    CASE body = "ok" /\ commit = "ok" ->
           [committed |-> TRUE, rolled_back |-> FALSE, raised |-> "none"]
      [] body = "SQLAlchemyError" \/ (body = "ok" /\ commit = "SQLAlchemyError") ->
           [committed |-> FALSE, rolled_back |-> TRUE, raised |-> "HTTPException"]
      [] OTHER ->
           [committed |-> FALSE, rolled_back |-> FALSE, raised |-> "Exception"]

\* The response of a handler whose try block raised: an HTTPException is
\* re-raised as it is, any other exception becomes the handler's own 500.
HandlerRaise(r, at, raised, status, detail, fallback_detail) ==
    [r EXCEPT !.pc = "done", !.pending = <<>>, !.failed_at = at,
              !.status = IF raised = "HTTPException" THEN status ELSE 500,
              !.detail = IF raised = "HTTPException" THEN detail ELSE fallback_detail]

\* The txlog entry of a db.rollback().
Rollback == <<"rollback", "ok">>

\* The body of a db_transaction block (add, flush, refresh) ends with outcome
\* o after staging row in the session. txlog records, per request, how each
\* body and each commit ended and each db.rollback().
TxBody(r, row, o, next_pc, fallback_detail) ==
    IF o = "ok"
    THEN [r EXCEPT !.pc = next_pc, !.pending = Append(@, row),
                   !.txlog = Append(@, <<"body", "ok">>)]
    ELSE LET exit == db_transaction(o, "none")
             r1 == [r EXCEPT !.txlog = @ \o (IF exit.rolled_back
                                              THEN <<(<<"body", o>>), Rollback>>
                                              ELSE <<(<<"body", o>>)>>)]
         IN HandlerRaise(r1, r.pc, exit.raised, 500, "Database operation failed",
                         fallback_detail)

\* The exit of a db_transaction block whose body completed: db.commit() ends
\* with outcome o.
TxExit(r, o, next_pc, fallback_detail) ==
    LET exit == db_transaction("ok", o)
    IN IF exit.raised = "none"
       THEN [r EXCEPT !.pc = next_pc, !.pending = <<>>,
                     !.txlog = Append(@, <<"commit", "ok">>)]
       ELSE LET r1 == [r EXCEPT !.txlog = @ \o (IF exit.rolled_back
                                                 THEN <<(<<"commit", o>>), Rollback>>
                                                 ELSE <<(<<"commit", o>>)>>)]
            IN HandlerRaise(r1, r.pc, exit.raised, 500, "Database operation failed",
                            fallback_detail)

\* The rows of the session that db_transaction's exit leaves in a table.
Persisted(pending, o) ==
    IF db_transaction("ok", o).committed THEN pending ELSE <<>>

ConversationOf(id) == CHOOSE c \in conversations : c.id = id

ConversationExists(id) == \E c \in conversations : c.id = id

Range(s) == {s[i] : i \in 1..Len(s)}

\* start_conversation up to the flush: the character lookup and the new row.
StartConversation(p) ==
    /\ req[p].pc \in {"idle", "done"}
    /\ nreq < MaxRequests
    /\ \E u \in Users, character_id \in CharIds :
          LET r == [Idle EXCEPT !.op = "start_conversation", !.id = nreq + 1,
                                !.user = u, !.character_id = character_id]
          IN req' = [req EXCEPT ![p] =
                        IF characters[character_id] = NoChar
                        THEN HandlerRaise(r, "lookup", "HTTPException", 404,
                                          "Character not found", "Failed to start conversation")
                        ELSE [r EXCEPT !.pc = "sc_flush"]]
    /\ nreq' = nreq + 1
    /\ UNCHANGED <<gen, ser, clock, collection, retr, cres, characters, conversations, messages, next_conv_id>>

\* db.add(conversation); flush assigns the id; refresh.
SC_Flush(p) ==
    /\ req[p].pc = "sc_flush"
    /\ \E o \in DbOutcomes :
          /\ req' = [req EXCEPT ![p] =
                TxBody([req[p] EXCEPT !.conversation_id = IF o = "ok" THEN next_conv_id ELSE 0],
                       [id |-> next_conv_id, user_id |-> req[p].user,
                        character_id |-> req[p].character_id],
                       o, "sc_commit", "Failed to start conversation")]
          /\ next_conv_id' = IF o = "ok" THEN next_conv_id + 1 ELSE next_conv_id
    /\ UNCHANGED <<gen, ser, clock, collection, retr, cres, characters, conversations, messages, nreq>>

\* The exit of the db_transaction block and the response.
SC_Commit(p) ==
    /\ req[p].pc = "sc_commit"
    /\ \E o \in DbOutcomes :
          /\ conversations' = conversations \cup Range(Persisted(req[p].pending, o))
          /\ LET r == TxExit(req[p], o, "done", "Failed to start conversation")
             IN req' = [req EXCEPT ![p] =
                           IF r.failed_at = "none"
                           THEN [r EXCEPT !.status = 200, !.detail = "Conversation started."]
                           ELSE r]
    /\ UNCHANGED <<gen, ser, clock, collection, retr, cres, characters, messages, next_conv_id, nreq>>


(***************************************************************************)
(* send_message  (src/app/routers/chat.py 266-332)                         *)
(***************************************************************************)

\* One line of the persona text when the attribute is present.
PersonaLine(label, value) == IF value = None THEN <<>> ELSE <<(<<label, value>>)>>

\* build_character_system_message: the persona text, as its lines.
build_character_system_message(character) ==
    <<(<<"My name is", character.name>>)>>
    \o PersonaLine("I am", character.nationality)
    \o PersonaLine("I work as", character.profession)
    \o PersonaLine("Here's my story:", character.background)
    \o PersonaLine("People describe me as", character.personality_traits)
    \o PersonaLine("What drives me?", character.motivations)
    \o PersonaLine("I have a few quirks:", character.quirks_habits)
    \o PersonaLine("Here's how I talk:", character.example_sentences)
    \o <<(<<"I will respond as myself", character.name>>)>>

\* openai_messages: the system message, the retrieved context, the new message.
AssembleContextFirst(system_content, relevant_messages, message) ==
    relevant_messages
    \o <<[role |-> "system", content |-> system_content]>>
    \o <<[role |-> "user", content |-> message]>>

AssembleMessages(system_content, relevant_messages, message) ==
    <<[role |-> "system", content |-> system_content]>>
    \o relevant_messages
    \o <<[role |-> "user", content |-> message]>>

\* A whole call of generate_ai_response on the provider outcomes outs of its
\* successive attempts: the loop runs until it returns or raises.
RECURSIVE GenRun(_, _)
GenRun(g, outs) ==
    IF g.pc \in {"returned", "raised"} \/ outs = <<>>
    THEN g
    ELSE LET g1 == GenAttempt(g, Head(outs))
         IN GenRun(IF g1.pc = "sleeping" THEN GenWakeUp(g1) ELSE g1, Tail(outs))

\* The ways a call of generate_ai_response can end.
GenResults ==
    {[pc |-> g.pc, status |-> g.status, result |-> g.result] :
        g \in {GenRun(GenStart, outs) : outs \in [1..(max_retries + 1) -> Outcomes]}}

\* top_k of the call in send_message: the default of the parameter (8 in the
\* source), scaled to the size of the modelled collection.
DefaultTopK == MaxTopK

\* The statements of send_message after the lookups, in program order; each
\* is a step of the request task.
SendStepsOneTransaction ==
    <<"sm_flush1", "sm_embed1", "sm_retrieve", "sm_generate",
      "sm_flush2", "sm_commit2", "sm_embed2", "done">>

SendStepsEmbedInTransaction ==
    <<"sm_flush1", "sm_embed1", "sm_commit1", "sm_retrieve", "sm_generate",
      "sm_flush2", "sm_embed2", "sm_commit2", "done">>

SendSteps ==
    <<"sm_flush1", "sm_commit1", "sm_embed1", "sm_retrieve", "sm_generate",
      "sm_flush2", "sm_commit2", "sm_embed2", "done">>

After(pc) ==
    LET i == CHOOSE j \in 1..Len(SendSteps) : SendSteps[j] = pc
    IN SendSteps[i + 1]

\* The handler goes on to its next statement; after the last it returns 200.
Advance(r) ==
    IF After(r.pc) = "done"
    THEN [r EXCEPT !.pc = "done", !.status = 200, !.pending = <<>>]
    ELSE [r EXCEPT !.pc = After(r.pc)]

\* The conversation lookup of send_message and get_conversation_history:
\* the status it raises (404 missing, 403 not the caller's), 0 when it passes.
LookupNoOwnerCheck(conversation_id, user_id) ==
    IF ~ConversationExists(conversation_id) THEN 404 ELSE 0

LookupConversation(conversation_id, user_id) ==
    CASE ~ConversationExists(conversation_id) -> 404
      [] ConversationExists(conversation_id)
           /\ ConversationOf(conversation_id).user_id # user_id -> 403
      [] OTHER -> 0

\* The lookups of the conversation and of its character, for a request drawn
\* from the given users, conversation ids and messages.
SendMessageOf(p, users, conversation_ids, texts) ==
    /\ req[p].pc \in {"idle", "done"}
    /\ nreq < MaxRequests
    /\ \E u \in users, conversation_id \in conversation_ids, message \in texts :
          LET r == [Idle EXCEPT !.op = "send_message", !.id = nreq + 1, !.user = u,
                                !.conversation_id = conversation_id, !.message = message]
              fail(status, detail) ==
                  HandlerRaise(r, "lookup", "HTTPException", status, detail,
                               "Failed to process message")
              found == LookupConversation(conversation_id, u)
          IN req' = [req EXCEPT ![p] =
                CASE found = 404 -> fail(404, "Conversation not found")
                  [] found = 403 -> fail(403, "You do not own this conversation")
                  [] found = 0
                       /\ characters[ConversationOf(conversation_id).character_id] = NoChar ->
                       fail(404, "Character not found")
                  [] OTHER ->
                       [r EXCEPT !.pc = SendSteps[1],
                                 !.character_id = ConversationOf(conversation_id).character_id]]
    /\ nreq' = nreq + 1
    /\ UNCHANGED <<gen, ser, clock, collection, retr, cres, characters, conversations, messages, next_conv_id>>

SendMessage(p) == SendMessageOf(p, Users, 1..MaxRequests, Messages)

\* Message.created_at of a row inserted at time now.
CreatedAt(now) == now

\* A Message row; by is the request that wrote it.
MessageRowAllUser(r, role, content, now) ==
    [conversation_id |-> r.conversation_id, role |-> "user", content |-> content,
     by |-> r.id, created_at |-> CreatedAt(now)]

MessageRow(r, role, content, now) ==
    [conversation_id |-> r.conversation_id, role |-> role, content |-> content,
     by |-> r.id, created_at |-> CreatedAt(now)]

\* First db_transaction block: db.add(user_msg_record); flush.
SM_Flush1(p) ==
    /\ req[p].pc = "sm_flush1"
    /\ \E o \in DbOutcomes :
          /\ req' = [req EXCEPT ![p] =
                        TxBody(req[p], MessageRow(req[p], "user", req[p].message, clock), o,
                               After("sm_flush1"), "Failed to process message")]
          /\ clock' = IF o = "ok" THEN clock + 1 ELSE clock
    /\ UNCHANGED <<gen, ser, collection, retr, cres, characters, conversations, messages,
                   next_conv_id, nreq>>

\* Exit of the first db_transaction block.
SM_Commit1(p) ==
    /\ req[p].pc = "sm_commit1"
    /\ \E o \in DbOutcomes :
          /\ messages' = messages \o Persisted(req[p].pending, o)
          /\ req' = [req EXCEPT ![p] =
                        TxExit(req[p], o, After("sm_commit1"), "Failed to process message")]
    /\ UNCHANGED <<gen, ser, clock, collection, retr, cres, characters, conversations, next_conv_id, nreq>>

\* store_message_embedding(conversation.id, content, role): the embedding
\* call or collection.add may raise; then nothing is added.
EmbedStep(p, role, content) ==
    \E ok \in BOOLEAN :
        IF ok
        THEN /\ collection' = CollectionAdd(collection, req[p].conversation_id,
                                            content, role, req[p].id)
             /\ req' = [req EXCEPT ![p] = Advance(req[p])]
        ELSE /\ collection' = collection
             /\ req' = [req EXCEPT ![p] =
                   HandlerRaise(req[p], req[p].pc, "Exception", 500, "none",
                                "Failed to process message")]

SM_Embed1(p) ==
    /\ req[p].pc = "sm_embed1"
    /\ EmbedStep(p, "user", req[p].message)
    /\ UNCHANGED <<gen, ser, clock, retr, cres, characters, conversations, messages, next_conv_id, nreq>>

\* retrieve_relevant_messages(conversation.id, request.message) and the
\* assembly of openai_messages; the embedding of the query may raise.
SM_Retrieve(p) ==
    /\ req[p].pc = "sm_retrieve"
    /\ \/ \E r \in RetrieveResults(collection, req[p].conversation_id,
                                   req[p].message, DefaultTopK) :
             req' = [req EXCEPT ![p] =
                [Advance(req[p]) EXCEPT
                    !.ids = r.ids,
                    !.openai_messages =
                        AssembleMessages(
                            build_character_system_message(characters[req[p].character_id]),
                            MessagesOf(collection, r.ids), req[p].message)]]
       \/ req' = [req EXCEPT ![p] =
             HandlerRaise(req[p], req[p].pc, "Exception", 500, "none",
                          "Failed to process message")]
    /\ UNCHANGED <<gen, ser, clock, collection, retr, cres, characters, conversations, messages,
                   next_conv_id, nreq>>

\* generate_ai_response(openai_messages, model): returns the reply or raises
\* its HTTPException, which send_message re-raises.
SM_Generate(p) ==
    /\ req[p].pc = "sm_generate"
    /\ \E g \in GenResults :
          req' = [req EXCEPT ![p] =
             IF g.pc = "returned"
             THEN [Advance(req[p]) EXCEPT !.ai = "returned", !.ai_content = g.result]
             ELSE [HandlerRaise(req[p], req[p].pc, "HTTPException", g.status,
                                "AI provider error", "Failed to process message")
                   EXCEPT !.ai = "raised"]]
    /\ UNCHANGED <<gen, ser, clock, collection, retr, cres, characters, conversations, messages,
                   next_conv_id, nreq>>

\* Second db_transaction block: db.add(ai_msg_record); flush.
SM_Flush2(p) ==
    /\ req[p].pc = "sm_flush2"
    /\ \E o \in DbOutcomes :
          /\ req' = [req EXCEPT ![p] =
                        TxBody(req[p], MessageRow(req[p], "assistant", req[p].ai_content, clock), o,
                               After("sm_flush2"), "Failed to process message")]
          /\ clock' = IF o = "ok" THEN clock + 1 ELSE clock
    /\ UNCHANGED <<gen, ser, collection, retr, cres, characters, conversations, messages,
                   next_conv_id, nreq>>

\* Exit of the second db_transaction block.
SM_Commit2(p) ==
    /\ req[p].pc = "sm_commit2"
    /\ \E o \in DbOutcomes :
          /\ messages' = messages \o Persisted(req[p].pending, o)
          /\ req' = [req EXCEPT ![p] =
                        TxExit(req[p], o, After("sm_commit2"), "Failed to process message")]
    /\ UNCHANGED <<gen, ser, clock, collection, retr, cres, characters, conversations, next_conv_id, nreq>>

SM_Embed2(p) ==
    /\ req[p].pc = "sm_embed2"
    /\ EmbedStep(p, "assistant", req[p].ai_content)
    /\ UNCHANGED <<gen, ser, clock, retr, cres, characters, conversations, messages, next_conv_id, nreq>>

(***************************************************************************)
(* get_conversation_history  (src/app/routers/chat.py 223-263)             *)
(***************************************************************************)

\* order_by(Message.created_at.asc()) on a set of rows.
RECURSIVE OrderByCreatedAt(_)
OrderByCreatedAt(rows) ==
    IF rows = {}
    THEN <<>>
    ELSE LET first == CHOOSE r \in rows : \A q \in rows : r.created_at <= q.created_at
         IN <<first>> \o OrderByCreatedAt(rows \ {first})

\* select(Message).where(Message.conversation_id == conversation_id)
\*     .order_by(Message.created_at.asc())
SelectMessages(conversation_id) ==
    OrderByCreatedAt({m \in Range(messages) : m.conversation_id = conversation_id})

\* The "messages" list of the response.
HistoryOf(rows) ==
    [i \in 1..Len(rows) |-> [role |-> rows[i].role, content |-> rows[i].content,
                             created_at |-> rows[i].created_at]]

\* The lookup of the conversation, for a request drawn from the given users
\* and conversation ids.
GetHistoryOf(p, users, conversation_ids) ==
    /\ req[p].pc \in {"idle", "done"}
    /\ nreq < MaxRequests
    /\ \E u \in users, conversation_id \in conversation_ids :
          LET r == [Idle EXCEPT !.op = "get_conversation_history", !.id = nreq + 1,
                                !.user = u, !.conversation_id = conversation_id]
              fail(status, detail) ==
                  HandlerRaise(r, "lookup", "HTTPException", status, detail,
                               "Failed to retrieve conversation history")
              found == LookupConversation(conversation_id, u)
          IN req' = [req EXCEPT ![p] =
                CASE found = 404 -> fail(404, "Conversation not found")
                  [] found = 403 -> fail(403, "Not your conversation")
                  [] OTHER -> [r EXCEPT !.pc = "gh_select"]]
    /\ nreq' = nreq + 1
    /\ UNCHANGED <<gen, ser, clock, collection, retr, cres, characters, conversations,
                   messages, next_conv_id>>

GetHistory(p) == GetHistoryOf(p, Users, 1..MaxRequests)

\* db.execute(select ...) and the response; the statement may raise.
GH_Select(p) ==
    /\ req[p].pc = "gh_select"
    /\ \E ok \in BOOLEAN :
          req' = [req EXCEPT ![p] =
             IF ok
             THEN [req[p] EXCEPT !.pc = "done", !.status = 200,
                                 !.history = HistoryOf(SelectMessages(req[p].conversation_id))]
             ELSE HandlerRaise(req[p], "gh_select", "Exception", 500, "none",
                               "Failed to retrieve conversation history")]
    /\ UNCHANGED <<gen, ser, clock, collection, retr, cres, characters, conversations,
                   messages, next_conv_id, nreq>>

(***************************************************************************)
(* The character endpoints  (src/app/routers/characters.py)                *)
(***************************************************************************)

Names == {"Ada", "Bob"}

\* The fields a CharacterUpdate body sets besides the required name: none, or
\* is_personal_character with owner_id as check_owner_if_personal_character
\* admits them (a personal character names its owner).
OwnershipUpdates ==
    {[set |-> FALSE, is_personal_character |-> FALSE, owner_id |-> NoOwner]}
    \cup [set : {TRUE}, is_personal_character : {FALSE}, owner_id : Users \cup {NoOwner}]
    \cup [set : {TRUE}, is_personal_character : {TRUE}, owner_id : Users]

NoCres == [op |-> "none", user |-> 0, character_id |-> 0, status |-> 0,
           before |-> NoChar, result |-> {}]

\* "Ownership check if personal": the condition under which update_character
\* and delete_character raise 403.
NotAllowedInverted(char, user_id) ==
    char.is_personal_character /\ char.owner_id = user_id

NotAllowed(char, user_id) ==
    char.is_personal_character /\ char.owner_id # user_id

\* The row create_character stores for a body that sets the name:
\* is_personal_character and owner_id are forced.
NewCharacter(name, user_id) ==
    [name |-> name, nationality |-> None, profession |-> None,
     background |-> None, personality_traits |-> None, motivations |-> None,
     quirks_habits |-> None, example_sentences |-> None,
     is_personal_character |-> TRUE, owner_id |-> user_id]

\* create_character by user u.
CreateCharacter ==
    /\ \E u \in Users, name \in Names :
          \E id \in {c \in CharIds : characters[c] = NoChar} :
             /\ characters' = [characters EXCEPT ![id] = NewCharacter(name, u)]
             /\ cres' = [op |-> "create_character", user |-> u, character_id |-> id,
                         status |-> 201, before |-> NoChar, result |-> {id}]
    /\ UNCHANGED <<gen, ser, clock, collection, retr, conversations, messages, next_conv_id, req, nreq>>

\* setattr(char, field, value) for the fields the body sets.
ApplyUpdate(char, name, own) ==
    IF own.set
    THEN [char EXCEPT !.name = name,
                      !.is_personal_character = own.is_personal_character,
                      !.owner_id = own.owner_id]
    ELSE [char EXCEPT !.name = name]

\* update_character(character_id, char_update) by user u.
UpdateCharacter ==
    /\ \E u \in Users, id \in CharIds, name \in Names, own \in OwnershipUpdates :
          LET char == characters[id]
              status == CASE char = NoChar -> 404
                          [] char # NoChar /\ NotAllowed(char, u) -> 403
                          [] OTHER -> 200
          IN /\ characters' = IF status = 200
                              THEN [characters EXCEPT ![id] = ApplyUpdate(char, name, own)]
                              ELSE characters
             /\ cres' = [op |-> "update_character", user |-> u, character_id |-> id,
                         status |-> status, before |-> char,
                         result |-> IF status = 200 THEN {id} ELSE {}]
    /\ UNCHANGED <<gen, ser, clock, collection, retr, conversations, messages, next_conv_id, req, nreq>>

\* delete_character(character_id) by user u.
DeleteCharacter ==
    /\ \E u \in Users, id \in CharIds :
          LET char == characters[id]
              status == CASE char = NoChar -> 404
                          [] char # NoChar /\ NotAllowed(char, u) -> 403
                          [] OTHER -> 204
          IN /\ characters' = IF status = 204
                              THEN [characters EXCEPT ![id] = NoChar]
                              ELSE characters
             /\ cres' = [op |-> "delete_character", user |-> u, character_id |-> id,
                         status |-> status, before |-> char, result |-> {}]
    /\ UNCHANGED <<gen, ser, clock, collection, retr, conversations, messages, next_conv_id, req, nreq>>

\* get_character(character_id) by user u: any existing character is returned.
GetCharacter ==
    /\ \E u \in Users, id \in CharIds :
          LET char == characters[id]
          IN cres' = [op |-> "get_character", user |-> u, character_id |-> id,
                      status |-> IF char = NoChar THEN 404 ELSE 200, before |-> char,
                      result |-> IF char = NoChar THEN {} ELSE {id}]
    /\ UNCHANGED <<gen, ser, clock, collection, retr, characters, conversations, messages,
                   next_conv_id, req, nreq>>

\* The where clause of the statement get_characters executes.
GetCharactersWhere(char, user_id) ==
    /\ char.is_personal_character = FALSE
    /\ char.owner_id = user_id

\* get_characters by user u: the ids of the rows the statement selects.
GetCharacters ==
    /\ \E u \in Users :
          cres' = [op |-> "get_characters", user |-> u, character_id |-> 0,
                   status |-> 200, before |-> NoChar,
                   result |-> {id \in CharIds : /\ characters[id] # NoChar
                                                /\ GetCharactersWhere(characters[id], u)}]
    /\ UNCHANGED <<gen, ser, clock, collection, retr, characters, conversations, messages,
                   next_conv_id, req, nreq>>

(***************************************************************************)
(* The list fields of a character  (src/app/routers/characters.py 26-61,   *)
(* src/add_characters.py 37-39)                                            *)
(***************************************************************************)

MaxListLen == 2
MaxStrLen == 1

\* The characters of the modelled strings: a letter, the JSON quote, the JSON
\* escape and the separator.  A string is a sequence of characters.
Alphabet == {"a", "\"", "\\", ","}
Strings == UNION {[1..k -> Alphabet] : k \in 0..MaxStrLen}
Lists == UNION {[1..k -> Strings] : k \in 0..MaxListLen}

\* Python values: None, a str, a list of str.
PyNone == [kind |-> "None", list |-> <<>>, text |-> <<>>]
PyStr(text) == [kind |-> "str", list |-> <<>>, text |-> text]
PyList(list) == [kind |-> "list", list |-> list, text |-> <<>>]

\* json.dumps
JsonEscape(c) == IF c \in {"\"", "\\"} THEN <<"\\", c>> ELSE <<c>>

RECURSIVE JsonEncodeChars(_)
JsonEncodeChars(text) ==
    IF text = <<>> THEN <<>> ELSE JsonEscape(Head(text)) \o JsonEncodeChars(Tail(text))

JsonEncodeStr(text) == <<"\"">> \o JsonEncodeChars(text) \o <<"\"">>

RECURSIVE JsonEncodeItems(_)
JsonEncodeItems(list) ==
    CASE list = <<>> -> <<>>
      [] Len(list) = 1 -> JsonEncodeStr(list[1])
      [] OTHER -> JsonEncodeStr(Head(list)) \o <<",", " ">> \o JsonEncodeItems(Tail(list))

JsonDumps(value) ==
    CASE value.kind = "None" -> <<"n", "u", "l", "l">>
      [] value.kind = "str" -> JsonEncodeStr(value.text)
      [] value.kind = "list" -> <<"[">> \o JsonEncodeItems(value.list) \o <<"]">>

\* json.loads: ok is FALSE for a JSONDecodeError; next is the position after
\* the value.
DecodeError == [ok |-> FALSE, value |-> PyNone, next |-> 0]

RECURSIVE SkipWhitespace(_, _)
SkipWhitespace(text, i) ==
    IF i <= Len(text) /\ text[i] = " " THEN SkipWhitespace(text, i + 1) ELSE i

\* The string whose opening quote is just before position i.
RECURSIVE ScanString(_, _, _)
ScanString(text, i, acc) ==
    CASE i > Len(text) -> DecodeError
      [] i <= Len(text) /\ text[i] = "\"" ->
           [ok |-> TRUE, value |-> PyStr(acc), next |-> i + 1]
      [] i <= Len(text) /\ text[i] = "\\" ->
           IF i + 1 <= Len(text) /\ text[i + 1] \in {"\"", "\\"}
           THEN ScanString(text, i + 2, Append(acc, text[i + 1]))
           ELSE DecodeError
      [] OTHER -> ScanString(text, i + 1, Append(acc, text[i]))

\* The elements of an array from position i, after "[" or ",".
RECURSIVE ScanItems(_, _, _)
ScanItems(text, i, acc) ==
    LET j == SkipWhitespace(text, i)
    IN IF j > Len(text) \/ text[j] # "\""
       THEN DecodeError
       ELSE LET item == ScanString(text, j + 1, <<>>)
                k == SkipWhitespace(text, item.next)
            IN CASE ~item.ok -> DecodeError
                 [] item.ok /\ k > Len(text) -> DecodeError
                 [] item.ok /\ k <= Len(text) /\ text[k] = "]" ->
                      [ok |-> TRUE, value |-> PyList(Append(acc, item.value.text)),
                       next |-> k + 1]
                 [] item.ok /\ k <= Len(text) /\ text[k] = "," ->
                      ScanItems(text, k + 1, Append(acc, item.value.text))
                 [] OTHER -> DecodeError

ScanValue(text) ==
    LET i == SkipWhitespace(text, 1)
        j == SkipWhitespace(text, i + 1)
    IN CASE i > Len(text) -> DecodeError
         [] i <= Len(text) /\ text[i] = "\"" -> ScanString(text, i + 1, <<>>)
         [] i <= Len(text) /\ text[i] = "[" ->
              IF j <= Len(text) /\ text[j] = "]"
              THEN [ok |-> TRUE, value |-> PyList(<<>>), next |-> j + 1]
              ELSE ScanItems(text, i + 1, <<>>)
         [] i + 3 <= Len(text) /\ SubSeq(text, i, i + 3) = <<"n", "u", "l", "l">> ->
              [ok |-> TRUE, value |-> PyNone, next |-> i + 4]
         [] OTHER -> DecodeError

JsonLoads(text) ==
    LET v == ScanValue(text)
    IN IF v.ok /\ SkipWhitespace(text, v.next) > Len(text) THEN v ELSE DecodeError

\* The text column of the Character row: what is written is what is read.
StoredText(value) == value

RECURSIVE JoinSemicolon(_)
JoinSemicolon(list) ==
    CASE list = <<>> -> <<>>
      [] Len(list) = 1 -> list[1]
      [] OTHER -> Head(list) \o <<";">> \o JoinSemicolon(Tail(list))

\* serialize_list_fields on one field: only a list is encoded.
SerializeSemicolonJoin(value) ==
    IF value.kind = "list" THEN PyStr(JoinSemicolon(value.list)) ELSE value

serialize_list_fields(value) ==
    IF value.kind = "list" THEN PyStr(JsonDumps(value)) ELSE value

\* "if char.field:"
Truthy(value) ==
    CASE value.kind = "None" -> FALSE
      [] value.kind = "str" -> value.text # <<>>
      [] value.kind = "list" -> value.list # <<>>

\* deserialize_list_fields on one field: a value that does not decode stays.
deserialize_list_fields(value) ==
    IF Truthy(value) /\ value.kind = "str"
    THEN LET decoded == JsonLoads(value.text)
         IN IF decoded.ok THEN decoded.value ELSE value
    ELSE value

ListFields == {"personality_traits", "quirks_habits", "example_sentences"}
FieldInputs == {PyNone} \cup {PyList(list) : list \in Lists}

\* No round trip yet.
NoSer == [pc |-> "none", field |-> "none", via |-> "none", input |-> PyNone,
          stored |-> PyNone, output |-> PyNone]

\* create_character / update_character write a field.
SerializeField ==
    /\ ser.pc = "none"
    /\ \E field \in ListFields, value \in FieldInputs :
          ser' = [pc |-> "stored", field |-> field, via |-> "serialize_list_fields",
                  input |-> value, stored |-> StoredText(serialize_list_fields(value)),
                  output |-> PyNone]
    /\ UNCHANGED <<gen, clock, collection, retr, cres, characters, conversations, messages,
                   next_conv_id, req, nreq>>

\* add_characters writes a field: json.dumps whatever the value.
SeedField ==
    /\ ser.pc = "none"
    /\ \E field \in ListFields, value \in FieldInputs :
          ser' = [pc |-> "stored", field |-> field, via |-> "add_characters",
                  input |-> value, stored |-> StoredText(PyStr(JsonDumps(value))),
                  output |-> PyNone]
    /\ UNCHANGED <<gen, clock, collection, retr, cres, characters, conversations, messages,
                   next_conv_id, req, nreq>>

\* An endpoint reads the row back.
DeserializeField ==
    /\ ser.pc = "stored"
    /\ ser' = [ser EXCEPT !.pc = "read", !.output = deserialize_list_fields(ser.stored)]
    /\ UNCHANGED <<gen, clock, collection, retr, cres, characters, conversations, messages,
                   next_conv_id, req, nreq>>

Init ==
    /\ gen = GenStart
    /\ collection = <<>>
    /\ retr = NoRetr
    /\ characters = [c \in CharIds |-> IF c = 1 THEN SeededCharacter ELSE NoChar]
    /\ conversations = {}
    /\ messages = <<>>
    /\ next_conv_id = 1
    /\ req = [p \in Procs |-> Idle]
    /\ nreq = 0
    /\ cres = NoCres
    /\ clock = 1
    /\ ser = NoSer

NextAI ==
    \/ GenCall /\ UNCHANGED <<collection, retr>> /\ UNCHANGED chatVars
    \/ GenWake /\ UNCHANGED <<collection, retr>> /\ UNCHANGED chatVars
    \/ GenEnter /\ UNCHANGED <<collection, retr>> /\ UNCHANGED chatVars

SpecAI == Init /\ [][NextAI]_vars

\* The completion call is a blocking call of the synchronous client, which
\* returns or raises, and asyncio.sleep returns: a call of
\* generate_ai_response that can take its next step takes it.
SpecAIFair ==
    /\ SpecAI
    /\ WF_vars(GenCall /\ UNCHANGED <<collection, retr>> /\ UNCHANGED chatVars)
    /\ WF_vars(GenWake /\ UNCHANGED <<collection, retr>> /\ UNCHANGED chatVars)

NextRetr == StoreEmbedding \/ Retrieve

NextChat ==
    \E p \in Procs :
        \/ StartConversation(p)
        \/ SC_Flush(p)
        \/ SC_Commit(p)
        \/ SendMessage(p)
        \/ SM_Flush1(p)
        \/ SM_Commit1(p)
        \/ SM_Embed1(p)
        \/ SM_Retrieve(p)
        \/ SM_Generate(p)
        \/ SM_Flush2(p)
        \/ SM_Commit2(p)
        \/ SM_Embed2(p)
        \/ GetHistory(p)
        \/ GH_Select(p)

Spec == Init /\ [][NextChat]_vars

NextChar ==
    \/ CreateCharacter
    \/ UpdateCharacter
    \/ DeleteCharacter
    \/ GetCharacter
    \/ GetCharacters

SpecChar == Init /\ [][NextChar]_vars

SpecRetr == Init /\ [][NextRetr]_vars

\* Concurrent send_message requests of one user on one conversation, which an
\* earlier start_conversation created.
InitConc ==
    /\ gen = GenStart
    /\ collection = <<>>
    /\ retr = NoRetr
    /\ characters = [c \in CharIds |-> IF c = 1 THEN SeededCharacter ELSE NoChar]
    /\ conversations = {[id |-> 1, user_id |-> 1, character_id |-> 1]}
    /\ messages = <<>>
    /\ next_conv_id = 2
    /\ req = [p \in Procs |-> Idle]
    /\ nreq = 0
    /\ cres = NoCres
    /\ clock = 1
    /\ ser = NoSer

NextConc ==
    \E p \in Procs :
        \/ SendMessageOf(p, {1}, {1}, Messages)
        \/ SM_Flush1(p)
        \/ SM_Commit1(p)
        \/ SM_Embed1(p)
        \/ SM_Retrieve(p)
        \/ SM_Generate(p)
        \/ SM_Flush2(p)
        \/ SM_Commit2(p)
        \/ SM_Embed2(p)

SpecConc == InitConc /\ [][NextConc]_vars

NextSer == SerializeField \/ SeedField \/ DeserializeField

SpecSer == Init /\ [][NextSer]_vars

(***************************************************************************)
(* Properties of generate_ai_response                                      *)
(***************************************************************************)

\* The classes the retry policy treats as transient provider failures: rate
\* limiting, connectivity, generic API error.
TransientClasses == {"RateLimitError", "APIConnectionError", "APIError"}

IsTransient(o) == o.kind = "raise" /\ o.cls \in TransientClasses

\* The backoff delays before the 1st, 2nd and 3rd retry.
Backoff == <<2, 4, 8>>

AllTransient(s) == \A i \in 1..Len(s) : IsTransient(s[i])

\* C1: n <= 3 transient failures are each followed by the n-th backoff delay
\* (2s, 4s, 8s) and a retry; when a success follows them, exactly n delays
\* occurred and the reply of attempt n+1 is returned; a 4th transient failure
\* raises 503 after exactly 3 retries, and no call of the model follows it.
C1_RetryPolicy ==
    LET a == gen.attempts
        n == Len(a)
    IN /\ gen.calls = n
       /\ n <= max_retries + 1
       /\ AllTransient(a) /\ n <= 3 =>
             /\ gen.pc \in {"call", "sleeping"}
             /\ gen.sleeps = SubSeq(Backoff, 1, n)
             /\ gen.retry_count = n
       /\ AllTransient(a) /\ n = 4 =>
             /\ gen.pc = "raised" /\ gen.status = 503
             /\ gen.sleeps = Backoff
       /\ n >= 1 /\ AllTransient(SubSeq(a, 1, n - 1)) /\ a[n].kind = "ok" =>
             /\ gen.pc = "returned" /\ gen.result = a[n].reply
             /\ gen.sleeps = SubSeq(Backoff, 1, n - 1)

\* Three transient failures, three delays, and the 4th attempt's reply returned.
C1_Witness ==
    /\ gen.pc = "returned"
    /\ Len(gen.attempts) = 4
    /\ AllTransient(SubSeq(gen.attempts, 1, 3))
    /\ gen.sleeps = <<2, 4, 8>>
    /\ gen.result = gen.attempts[4].reply

\* C2: a BadRequest failure at any attempt is the last attempt of the call: it
\* raises 400 at once, with no backoff delay and no model call after it.
C2_BadRequestNotRetried ==
    \A i \in 1..Len(gen.attempts) :
        (gen.attempts[i].kind = "raise" /\ gen.attempts[i].cls = "BadRequestError") =>
            /\ i = Len(gen.attempts)
            /\ gen.calls = i
            /\ gen.pc = "raised" /\ gen.status = 400
            /\ Len(gen.sleeps) = i - 1

\* A BadRequest failure on the attempt reached after two transient retries.
C2_Witness ==
    /\ Len(gen.attempts) = 3
    /\ AllTransient(SubSeq(gen.attempts, 1, 2))
    /\ gen.attempts[3].cls = "BadRequestError"
    /\ gen.pc = "raised" /\ gen.status = 400
    /\ gen.sleeps = <<2, 4>>

(***************************************************************************)
(* Properties of retrieve_relevant_messages                                *)
(***************************************************************************)

\* The records of a conversation among the first n records of the collection.
RecordsOf(conversation_id, n) ==
    {i \in 1..n : collection[i].conversation_id = conversation_id}

\* C4: on both paths retrieve_relevant_messages returns at most top_k
\* messages, at most as many as are stored for the conversation, each the
\* role and text of a distinct stored record of that conversation.
C4_ConversationFilter ==
    retr.path # "none" =>
        /\ Len(retr.ids) <= retr.top_k
        /\ Len(retr.ids) <= Cardinality(RecordsOf(retr.conversation_id, retr.stored))
        /\ Len(retr.messages) = Len(retr.ids)
        /\ \A i \in 1..Len(retr.ids) :
              /\ retr.ids[i] \in RecordsOf(retr.conversation_id, retr.stored)
              /\ retr.messages[i].role = collection[retr.ids[i]].role
              /\ retr.messages[i].content = collection[retr.ids[i]].document
              /\ \A j \in 1..Len(retr.ids) : retr.ids[i] = retr.ids[j] => i = j

\* The fallback path returns one of the two stored messages of the
\* conversation while the collection also holds another conversation's.
C4_Witness ==
    /\ retr.path = "fallback"
    /\ retr.top_k = 1
    /\ Len(retr.ids) = 1
    /\ \E i \in 1..retr.stored : collection[i].conversation_id # retr.conversation_id

\* The k most recently stored records of a conversation among the first n.
MostRecent(conversation_id, n, k) ==
    {i \in RecordsOf(conversation_id, n) :
        Cardinality({j \in RecordsOf(conversation_id, n) : j > i}) < k}

\* C5: on the fallback path the result is the k most recently stored records
\* of the conversation (all of them when fewer than k exist), whatever the
\* collection holds for other conversations.
C5_FallbackMostRecent ==
    retr.path = "fallback" =>
        {retr.ids[i] : i \in 1..Len(retr.ids)} =
            MostRecent(retr.conversation_id, retr.stored, retr.top_k)

(***************************************************************************)
(* Properties of the chat endpoints                                        *)
(***************************************************************************)

\* The committed message rows a request wrote with a role.
RowsBy(id, role) ==
    {i \in 1..Len(messages) : messages[i].by = id /\ messages[i].role = role}

\* The collection records a request wrote with a role.
RecordsBy(id, role) ==
    {i \in 1..Len(collection) : collection[i].by = id /\ collection[i].role = role}

UserRowPersisted(r) ==
    \E i \in RowsBy(r.id, "user") :
        /\ messages[i].content = r.message
        /\ messages[i].conversation_id = r.conversation_id

\* C3: when the AI completion call of a send_message request fails (400 or
\* 503), the user message of the request is persisted, once, and the request
\* records no assistant message.
C3_FailedAIKeepsUserMessage ==
    \A p \in Procs :
        (req[p].op = "send_message" /\ req[p].ai = "raised") =>
            /\ req[p].status \in {400, 503}
            /\ UserRowPersisted(req[p])
            /\ Cardinality(RowsBy(req[p].id, "user")) = 1
            /\ RowsBy(req[p].id, "assistant") = {}

\* A request that ended in 503 from the AI call, its user message persisted.
C3_Witness ==
    \E p \in Procs :
        /\ req[p].op = "send_message" /\ req[p].ai = "raised"
        /\ req[p].status = 503 /\ req[p].pc = "done"
        /\ UserRowPersisted(req[p])

\* C6: there is at most one conversation per (user, character) pair.
C6_OneConversationPerPair ==
    \A c1, c2 \in conversations :
        (c1.user_id = c2.user_id /\ c1.character_id = c2.character_id) => c1.id = c2.id

C8_EmbeddingAfterCommit ==
    /\ \A i \in 1..Len(collection) :
          collection[i].by # 0 =>
              \E j \in RowsBy(collection[i].by, collection[i].role) :
                  /\ messages[j].content = collection[i].document
                  /\ messages[j].conversation_id = collection[i].conversation_id
    /\ \A p \in Procs :
          LET r == req[p]
          IN r.op = "send_message" =>
              /\ r.pc \in {"sm_embed1", "sm_retrieve", "sm_generate", "sm_flush2", "sm_commit2"} =>
                    /\ Len(r.txlog) >= 2 /\ r.txlog[2] = <<"commit", "ok">>
                    /\ UserRowPersisted(r)
                    /\ RowsBy(r.id, "assistant") = {}
              /\ r.status = 200 =>
                    /\ r.txlog = << <<"body", "ok">>, <<"commit", "ok">>,
                                    <<"body", "ok">>, <<"commit", "ok">> >>
                    /\ \E i \in RowsBy(r.id, "user"), j \in RowsBy(r.id, "assistant") : i < j
              /\ r.failed_at = "sm_embed1" =>
                    /\ UserRowPersisted(r)
                    /\ RecordsBy(r.id, "user") = {}
              /\ r.failed_at = "sm_embed2" =>
                    /\ UserRowPersisted(r)
                    /\ \E j \in RowsBy(r.id, "assistant") : messages[j].content = r.ai_content
                    /\ RecordsBy(r.id, "assistant") = {}

\* The embedding write of an assistant reply failed after both commits.
C8_Witness ==
    \E p \in Procs :
        /\ req[p].failed_at = "sm_embed2" /\ req[p].status = 500
        /\ RowsBy(req[p].id, "assistant") # {}
        /\ RecordsBy(req[p].id, "user") # {}
        /\ RecordsBy(req[p].id, "assistant") = {}

\* The rows a request has committed.
CommittedBy(r) ==
    Cardinality(RowsBy(r.id, "user")) + Cardinality(RowsBy(r.id, "assistant"))
    + (IF r.op = "start_conversation" /\ ConversationExists(r.conversation_id)
       THEN 1 ELSE 0)

CountOf(s, e) == Cardinality({i \in 1..Len(s) : s[i] = e})

\* C9: db_transaction commits exactly when its body completed without an
\* exception, and then the rows of the body are persisted; a database-layer
\* exception in the body or in the commit is followed by a rollback, leaves
\* no row of the body persisted and ends the request with 500
\* 'Database operation failed'.
C9_DbTransaction ==
    \A p \in Procs :
        LET r == req[p]
            log == r.txlog
        IN /\ \A i \in 1..Len(log) :
                 /\ log[i][1] = "commit" =>
                        i > 1 /\ log[i - 1] = <<"body", "ok">>
                 /\ log[i] = <<"body", "ok">> =>
                        IF i = Len(log)
                        THEN r.pc \in {"sc_commit", "sm_commit1", "sm_commit2"}
                        ELSE log[i + 1][1] = "commit"
                 /\ log[i] \in {<<"body", "SQLAlchemyError">>, <<"commit", "SQLAlchemyError">>} =>
                        /\ i + 1 = Len(log) /\ log[i + 1] = Rollback
                        /\ r.pc = "done" /\ r.status = 500
                        /\ r.detail = "Database operation failed"
                        /\ r.pending = <<>>
                 /\ log[i] = Rollback =>
                        i > 1 /\ log[i - 1] \in {<<"body", "SQLAlchemyError">>,
                                                 <<"commit", "SQLAlchemyError">>}
           /\ CommittedBy(r) = CountOf(log, <<"commit", "ok">>)

\* The commit of the first transaction of send_message raised a database
\* exception: rolled back, nothing persisted, 500.
C9_Witness ==
    \E p \in Procs :
        /\ req[p].op = "send_message"
        /\ req[p].txlog = << <<"body", "ok">>, <<"commit", "SQLAlchemyError">>, Rollback >>
        /\ req[p].status = 500
        /\ RowsBy(req[p].id, "user") = {}

(***************************************************************************)
(* Properties of the character endpoints                                   *)
(***************************************************************************)

\* C10: update_character and delete_character by a user on a personal
\* character owned by a different user fail with 403 and leave the character
\* row as it was.
C10_ForeignPersonalCharacter ==
    (/\ cres.op \in {"update_character", "delete_character"}
     /\ cres.before # NoChar
     /\ cres.before.is_personal_character
     /\ cres.before.owner_id # cres.user) =>
        /\ cres.status = 403
        /\ characters[cres.character_id] = cres.before

\* A delete by a user who does not own the personal character was refused.
C10_Witness ==
    /\ cres.op = "delete_character"
    /\ cres.before # NoChar
    /\ cres.before.is_personal_character
    /\ cres.before.owner_id \in Users \ {cres.user}
    /\ cres.status = 403
    /\ characters[cres.character_id] = cres.before

\* C11: a public character is returned by get_character to any user, and
\* update_character and delete_character by a user who is not its owner are
\* rejected and leave its row as it was.
C11_PublicNotWritableByOthers ==
    (cres.before # NoChar /\ ~cres.before.is_personal_character) =>
        /\ cres.op = "get_character" =>
              cres.status = 200 /\ cres.result = {cres.character_id}
        /\ (cres.op \in {"update_character", "delete_character"}
            /\ cres.before.owner_id # cres.user) =>
              /\ cres.status \notin {200, 204}
              /\ characters[cres.character_id] = cres.before

\* The characters get_characters is documented to return to a user.
VisibleTo(user_id) ==
    {id \in CharIds :
        /\ characters[id] # NoChar
        /\ \/ ~characters[id].is_personal_character
           \/ characters[id].is_personal_character /\ characters[id].owner_id = user_id}

\* C12: get_characters returns exactly the characters that are public or are
\* personal and owned by the caller.
C12_PublicOrOwned ==
    cres.op = "get_characters" => cres.result = VisibleTo(cres.user)

\* A chat request that takes the conversation lookup starts in this step.
Begins(p) ==
    /\ req'[p].id # req[p].id
    /\ req'[p].op \in {"send_message", "get_conversation_history"}

\* C13: send_message and get_conversation_history answer 404 when the
\* conversation does not exist and 403 when it is another user's; such a
\* request persists no message, writes no embedding, calls no model and
\* returns no message.
C13_LookupRejects ==
    /\ [](\A p \in Procs :
            (/\ req[p].op \in {"send_message", "get_conversation_history"}
             /\ req[p].failed_at = "lookup"
             /\ req[p].detail # "Character not found") =>
                /\ req[p].pc = "done" /\ req[p].status \in {403, 404}
                /\ RowsBy(req[p].id, "user") = {} /\ RowsBy(req[p].id, "assistant") = {}
                /\ RecordsBy(req[p].id, "user") = {} /\ RecordsBy(req[p].id, "assistant") = {}
                /\ req[p].ai = "none" /\ req[p].openai_messages = <<>>
                /\ req[p].history = <<>>)
    /\ [][\A p \in Procs :
            Begins(p) =>
                /\ ~ConversationExists(req'[p].conversation_id) =>
                      /\ req'[p].status = 404 /\ req'[p].failed_at = "lookup"
                      /\ req'[p].detail = "Conversation not found"
                /\ (/\ ConversationExists(req'[p].conversation_id)
                    /\ ConversationOf(req'[p].conversation_id).user_id # req'[p].user) =>
                      /\ req'[p].status = 403 /\ req'[p].failed_at = "lookup"]_vars

\* A send_message on another user's conversation was refused with 403.
C13_Witness ==
    \E p \in Procs :
        /\ req[p].op = "send_message" /\ req[p].status = 403
        /\ ConversationExists(req[p].conversation_id)
        /\ ConversationOf(req[p].conversation_id).user_id # req[p].user
        /\ RowsBy(req[p].id, "user") = {}

\* C14: a list of strings (or None) written to personality_traits,
\* quirks_habits or example_sentences and read back with
\* deserialize_list_fields is the same list, same elements in the same order;
\* None stays None.
C14_ListRoundTrip ==
    ser.pc = "read" => ser.output = ser.input

\* Two different elements, one holding a quote, written by
\* serialize_list_fields and read back.
C14_Witness ==
    /\ ser.pc = "read" /\ ser.via = "serialize_list_fields"
    /\ ser.input.kind = "list" /\ Len(ser.input.list) = 2
    /\ ser.input.list[1] = <<"\"">> /\ ser.input.list[2] = <<",">>
    /\ ser.stored.kind = "str" /\ ser.output = ser.input

\* The failures that are neither a malformed request nor a transient
\* provider failure.
UnexpectedClasses == ErrorClasses \ ({"BadRequestError"} \cup TransientClasses)

\* C15: a failure of the model call that is neither a malformed request nor a
\* transient provider failure is the last attempt of the call: it raises 503
\* at once, with no retry and no backoff delay after it, also after earlier
\* transient retries.
C15_UnexpectedNotRetried ==
    \A i \in 1..Len(gen.attempts) :
        (gen.attempts[i].kind = "raise" /\ gen.attempts[i].cls \in UnexpectedClasses) =>
            /\ i = Len(gen.attempts)
            /\ gen.calls = i
            /\ gen.pc = "raised" /\ gen.status = 503
            /\ Len(gen.sleeps) = i - 1
            /\ gen.retry_count = i - 1

\* An unexpected failure on the attempt reached after two transient retries.
C15_Witness ==
    /\ Len(gen.attempts) = 3
    /\ AllTransient(SubSeq(gen.attempts, 1, 2))
    /\ gen.attempts[3].cls \in UnexpectedClasses
    /\ gen.pc = "raised" /\ gen.status = 503
    /\ gen.sleeps = <<2, 4>>

RECURSIVE SumSeq(_)
SumSeq(s) == IF s = <<>> THEN 0 ELSE Head(s) + SumSeq(Tail(s))

\* The call gave up: the retries of transient failures are exhausted.
GaveUp == gen.pc = "raised" /\ gen.retry_count > max_retries

\* C16: every call of generate_ai_response returns or raises, whatever the
\* provider does; it makes at most 4 model calls and sleeps at most 3 times,
\* and when it gives up it has waited exactly 2 + 4 + 8 = 14 seconds.
C16_Terminates ==
    /\ [](/\ gen.calls <= 4
          /\ Len(gen.sleeps) <= 3
          /\ SumSeq(gen.sleeps) <= 14
          /\ GaveUp => /\ gen.calls = 4 /\ gen.status = 503
                       /\ Len(gen.sleeps) = 3 /\ SumSeq(gen.sleeps) = 14)
    /\ (gen.pc \in {"call", "sleeping"}) ~> (gen.pc \in {"returned", "raised"})

\* The call gave up after 4 model calls and 3 sleeps.
C16_Witness ==
    /\ GaveUp /\ gen.calls = 4 /\ gen.status = 503
    /\ AllTransient(gen.attempts)
    /\ SumSeq(gen.sleeps) = 14

\* C17: the context between the system message and the new user message is
\* made of messages stored before the current request: no retrieved record
\* was written by the request itself, so the message being sent is in the
\* prompt once, as its last element.
C17_ContextIsPrior ==
    \A p \in Procs :
        LET om == req[p].openai_messages
            ids == req[p].ids
        IN om # <<>> =>
            /\ \A i \in 1..Len(ids) : collection[ids[i]].by # req[p].id
            /\ om[Len(om)] = [role |-> "user", content |-> req[p].message]

\* A send_message request that answered 200.
Succeeded(r) == r.op = "send_message" /\ r.pc = "done" /\ r.status = 200

\* The conversation's log: its committed messages in creation-time order.
LogOf(conversation_id) == SelectMessages(conversation_id)

\* C18 as stated: each successful request appended one user message and then
\* one assistant message, and in creation-time order every assistant message
\* is immediately preceded by the user message it answers.
C18_StrictAlternation ==
    LET log == LogOf(1)
    IN /\ \A p \in Procs :
             Succeeded(req[p]) =>
                /\ Cardinality(RowsBy(req[p].id, "user")) = 1
                /\ Cardinality(RowsBy(req[p].id, "assistant")) = 1
       /\ \A i \in 1..Len(log) :
             log[i].role = "assistant" =>
                /\ i > 1
                /\ log[i - 1].role = "user"
                /\ log[i - 1].by = log[i].by

\* C18 (amended): under every interleaving of concurrent send_message
\* requests on one conversation, each successful request appended exactly one
\* user message and exactly one assistant message, no request appended more,
\* and every assistant message comes, in creation-time order, after the user
\* message it answers, not necessarily right after it.
C18_OneExchangePerRequest ==
    LET log == LogOf(1)
    IN /\ \A p \in Procs :
             Succeeded(req[p]) =>
                /\ Cardinality(RowsBy(req[p].id, "user")) = 1
                /\ Cardinality(RowsBy(req[p].id, "assistant")) = 1
       /\ \A id \in 1..MaxRequests :
             /\ Cardinality(RowsBy(id, "user")) <= 1
             /\ Cardinality(RowsBy(id, "assistant")) <= 1
       /\ \A i \in 1..Len(log) :
             log[i].role = "assistant" =>
                \E j \in 1..(i - 1) :
                    /\ log[j].role = "user"
                    /\ log[j].by = log[i].by
                    /\ log[j].created_at < log[i].created_at

\* Two requests succeeded and their messages interleaved: user, user,
\* assistant, assistant.
C18_Witness ==
    LET log == LogOf(1)
    IN /\ \A p \in Procs : Succeeded(req[p])
       /\ Len(log) = 4
       /\ log[1].role = "user" /\ log[2].role = "user"
       /\ log[3].role = "assistant" /\ log[4].role = "assistant"
       /\ log[1].by # log[2].by

====
